---- MODULE Spec2Model ----
(***************************************************************************)
(* A model of src/AI_stock_agent.py: the synthetic data generator, the     *)
(* statistics calculator, the significance analyzer (remote-model path     *)
(* and rule path), the report builder and the orchestrator main().         *)
(*                                                                         *)
(* Numbers.  The program computes with binary floating point.  The model   *)
(* computes with exact rationals n/d (d > 0, lowest terms), with the value *)
(* NaN that pandas yields for an undefined statistic, and with the form    *)
(* "vol" for an annualized volatility sqrt(n/d) * sqrt(252) * 100, whose   *)
(* square root is irrational in general and is only ever compared with a   *)
(* threshold or rounded for printing.  Floating-point rounding error is    *)
(* not modelled.                                                           *)
(***************************************************************************)
EXTENDS Integers, Sequences, FiniteSets, TLC

VARIABLES
    pc,            \* position of the run
    gemini_key,    \* os.getenv('GEMINI_API_KEY'): "None" or the key's length
    stock_data,    \* the observation table (a sequence of rows)
    stock_stats,   \* the summary table (a sequence of summaries)
    llm_analysis,  \* the Analyzer's result: a sequence of text lines
    report,        \* the report built by create_report
    console,       \* what main printed: the set of messages
    file,          \* ai_stock_report.txt: times opened, times written, content
    steps,         \* history: the steps of main that were started, in order
    configured,    \* history: number of genai.configure calls
    attempts,      \* history: the model calls made, with their outcomes
    rules_calls,   \* history: number of analyze_with_rules calls
    analyzer,      \* analyze_with_llm: "idle", "running", "returned", "raised"
    outcome,       \* main: "running", "returned", "raised"
    runs           \* the generator's two processes (hash salt, output)

vars == <<pc, gemini_key, stock_data, stock_stats, llm_analysis, report,
          console, file, steps, configured, attempts, rules_calls, analyzer,
          outcome, runs>>

----------------------------------------------------------------------------
(* Exact rational arithmetic *)

AbsInt(x) == IF x < 0 THEN -x ELSE x

RECURSIVE Gcd(_, _)
Gcd(a, b) == IF b = 0 THEN a ELSE Gcd(b, a % b)

NaN == [k |-> "nan", n |-> 0, d |-> 1]

Rat(n, d) ==
    LET g == Gcd(AbsInt(n), d)
    IN  [k |-> "rat", n |-> n \div g, d |-> d \div g]

IsNaN(x) == x.k = "nan"

RAdd(a, b) ==
    LET g == Gcd(a.d, b.d)
        l == (a.d \div g) * b.d
    IN  Rat(a.n * (l \div a.d) + b.n * (l \div b.d), l)

RNeg(a) == [a EXCEPT !.n = -a.n]

RSub(a, b) == RAdd(a, RNeg(b))

RMul(a, b) ==
    LET g1 == Gcd(AbsInt(a.n), b.d)
        g2 == Gcd(AbsInt(b.n), a.d)
    IN  Rat((a.n \div g1) * (b.n \div g2), (a.d \div g2) * (b.d \div g1))

\* a / b for b # 0
RDiv(a, b) ==
    RMul(a, IF b.n < 0 THEN Rat(-b.d, -b.n) ELSE Rat(b.d, b.n))

RInt(i) == Rat(i, 1)

\* a < b, for rationals
RLess(a, b) == a.n * b.d < b.n * a.d

RECURSIVE RSum(_)
RSum(s) == IF s = <<>> THEN RInt(0) ELSE RAdd(Head(s), RSum(Tail(s)))

----------------------------------------------------------------------------
(* Configuration tables of the program *)

\* AI_COMPANIES: ticker -> company, in insertion order
AI_COMPANIES ==
    << [ticker |-> "NVDA",  company |-> "NVIDIA Corporation"],
       [ticker |-> "MSFT",  company |-> "Microsoft Corporation"],
       [ticker |-> "GOOGL", company |-> "Alphabet Inc."],
       [ticker |-> "AMZN",  company |-> "Amazon.com Inc."],
       [ticker |-> "META",  company |-> "Meta Platforms Inc."],
       [ticker |-> "AMD",   company |-> "Advanced Micro Devices"],
       [ticker |-> "PLTR",  company |-> "Palantir Technologies"],
       [ticker |-> "SNOW",  company |-> "Snowflake Inc."],
       [ticker |-> "CRM",   company |-> "Salesforce Inc."] >>

CompanyOf(t) ==
    (CHOOSE i \in 1..Len(AI_COMPANIES) : AI_COMPANIES[i].ticker = t) 

----------------------------------------------------------------------------
(* Data Source: generate_sample_data *)

\* A row of the observation table
Row(date, ticker, price) ==
    [date |-> date, ticker |-> ticker,
     company |-> AI_COMPANIES[CompanyOf(ticker)].company, price |-> price]

base_prices ==
    [t \in {AI_COMPANIES[i].ticker : i \in 1..Len(AI_COMPANIES)} |->
        CASE t = "NVDA" -> 450 [] t = "MSFT" -> 380 [] t = "GOOGL" -> 140
          [] t = "AMZN" -> 150 [] t = "META" -> 320 [] t = "AMD" -> 140
          [] t = "PLTR" -> 25  [] t = "SNOW" -> 180 [] t = "CRM" -> 220]

\* The tickers in the order of Python's string comparison
TickerOrder ==
    <<"AMD", "AMZN", "CRM", "GOOGL", "META", "MSFT", "NVDA", "PLTR", "SNOW">>

TickerRank(t) == CHOOSE i \in 1..Len(TickerOrder) : TickerOrder[i] = t

\* The days d of the `days` calendar days that end today which fall on
\* Monday to Friday, rising; day d falls on weekday d % 7, 0 being Monday
RECURSIVE BusinessDays(_, _)
BusinessDays(days, today) ==
    IF days = 0 THEN <<>>
    ELSE BusinessDays(days - 1, today - 1)
         \o (IF today % 7 < 5 THEN <<today>> ELSE <<>>)

\* hash(ticker): CPython salts the hash of a string with a value drawn when
\* the process starts (PYTHONHASHSEED unset), so it is a function of the
\* string and of the process's salt; the result is a signed machine word
PyHash(salt, ticker) ==
    ((salt * 40503 + CompanyOf(ticker) * 9973) % 65536) * 32749 - 1073741824

\* hash(ticker) % 2**32, as its two 16-bit halves
SeedOf(h) == <<(h \div 65536) % 65536, h % 65536>>

\* np.random.normal(0, 0.025), i-th draw after np.random.seed(seed): a
\* function of the seed and of i alone.  The draws are taken from one
\* standard deviation below the mean, the mean, and one above.
NormalDraw(seed, i) ==
    LET draws == <<Rat(-1, 40), Rat(0, 1), Rat(1, 40)>>
    IN  draws[((seed[1] + seed[2] + i * (1 + (seed[2] % 2))) % 3) + 1]

\* The prices of the walk: current_price *= (1 + change), n times
RECURSIVE Walk(_, _, _)
Walk(base, seed, n) ==
    IF n = 0 THEN <<>>
    ELSE LET before == Walk(base, seed, n - 1)
             current_price == IF n = 1 THEN RInt(base) ELSE before[n - 1]
         IN  Append(before,
                    RMul(current_price, RAdd(RInt(1), NormalDraw(seed, n))))

\* The rows of one ticker: one for each date
TickerFrame(ticker, dates, salt) ==
    LET prices == Walk(base_prices[ticker], SeedOf(PyHash(salt, ticker)),
                       Len(dates))
    IN  [i \in 1..Len(dates) |-> Row(dates[i], ticker, prices[i])]

RECURSIVE ConcatFrames(_, _, _)
ConcatFrames(companies, dates, salt) ==
    IF companies = <<>> THEN <<>>
    ELSE TickerFrame(Head(companies).ticker, dates, salt)
         \o ConcatFrames(Tail(companies), dates, salt)

\* r comes before s in the order of (ticker, date)
RowBefore(r, s) ==
    \/ TickerRank(r.ticker) < TickerRank(s.ticker)
    \/ r.ticker = s.ticker /\ r.date < s.date

RECURSIVE InsertByTickerDate(_, _)
InsertByTickerDate(sorted, r) ==
    IF sorted = <<>> THEN <<r>>
    ELSE IF ~RowBefore(r, sorted[Len(sorted)]) THEN Append(sorted, r)
    ELSE Append(InsertByTickerDate(SubSeq(sorted, 1, Len(sorted) - 1), r),
                sorted[Len(sorted)])

\* .sort_values(['ticker', 'date'])
RECURSIVE SortByTickerDate(_)
SortByTickerDate(rows) ==
    IF rows = <<>> THEN <<>>
    ELSE InsertByTickerDate(SortByTickerDate(SubSeq(rows, 1, Len(rows) - 1)),
                            rows[Len(rows)])

\* generate_sample_data(days) in a process with the given hash salt, on
\* the day `today`
generate_sample_data(days, today, salt) ==
    SortByTickerDate(ConcatFrames(AI_COMPANIES, BusinessDays(days, today), salt))

----------------------------------------------------------------------------
(* Statistics Calculator: calculate_price_changes *)

\* df['ticker'].unique(): the distinct tickers in order of first appearance
RECURSIVE Unique(_)
Unique(rows) ==
    IF rows = <<>> THEN <<>>
    ELSE LET init == Unique(SubSeq(rows, 1, Len(rows) - 1))
             t    == rows[Len(rows)].ticker
         IN  IF \E i \in 1..Len(init) : init[i] = t
             THEN init ELSE Append(init, t)

\* df[df['ticker'] == ticker]: the ticker's rows in table order
FilterTicker(rows, t) == SelectSeq(rows, LAMBDA r : r.ticker = t)

\* Insert a row into a sequence sorted by date, after the rows not later
RECURSIVE InsertByDate(_, _)
InsertByDate(sorted, r) ==
    IF sorted = <<>> THEN <<r>>
    ELSE IF sorted[Len(sorted)].date <= r.date THEN Append(sorted, r)
    ELSE Append(InsertByDate(SubSeq(sorted, 1, Len(sorted) - 1), r),
                sorted[Len(sorted)])

RECURSIVE InsertionSortByDate(_)
InsertionSortByDate(rows) ==
    IF rows = <<>> THEN <<>>
    ELSE InsertByDate(InsertionSortByDate(SubSeq(rows, 1, Len(rows) - 1)),
                      rows[Len(rows)])

\* A plausible slip: the ticker's rows are used in table order
SortByDateOmitted(rows) == rows

\* .sort_values('date'): ascending by date
SortByDate(rows) == InsertionSortByDate(rows)

\* ticker_data['price'].pct_change(): NaN first, then price_i/price_{i-1} - 1
PctChange(rows) ==
    [i \in 1..Len(rows) |->
        IF i = 1 THEN NaN
        ELSE RSub(RDiv(rows[i].price, rows[i-1].price), RInt(1))]

\* The values a pandas reduction keeps: NaN is skipped
DropNaN(xs) == SelectSeq(xs, LAMBDA x : ~IsNaN(x))

\* Series.mean(): NaN when nothing is left
Mean(xs) ==
    LET v == DropNaN(xs)
    IN  IF v = <<>> THEN NaN ELSE RDiv(RSum(v), RInt(Len(v)))

RECURSIVE SumSqDev(_, _)
SumSqDev(v, m) ==
    IF v = <<>> THEN RInt(0)
    ELSE LET dev == RSub(Head(v), m)
         IN  RAdd(RMul(dev, dev), SumSqDev(Tail(v), m))

\* The delta degrees of freedom of Series.std()
Ddof == 1

\* Series.std(): the sample standard deviation (ddof = 1) of the values
\* that are not NaN; NaN when not more than ddof values are left.
\* The result sqrt(n/d) is kept as its radicand.
Std(xs) ==
    LET v == DropNaN(xs)
    IN  IF Len(v) <= Ddof THEN NaN
        ELSE LET var == RDiv(SumSqDev(v, Mean(v)), RInt(Len(v) - Ddof))
             IN  [k |-> "sqrt", n |-> var.n, d |-> var.d]

\* std * np.sqrt(252) * 100: the form "vol" stands for
\* sqrt(n/d) * sqrt(252) * 100; NaN stays NaN
Annualize(sd) ==
    IF IsNaN(sd) THEN NaN ELSE [k |-> "vol", n |-> sd.n, d |-> sd.d]

\* The minimum number of observations of a summarised ticker
MinObservations == 2

\* The summary of one ticker, from its rows sorted by date
Summary(ticker, ticker_data) ==
    LET daily_return == PctChange(ticker_data)
        latest   == ticker_data[Len(ticker_data)]
        previous == ticker_data[Len(ticker_data) - 1]
        first    == ticker_data[1]
    IN  [ticker        |-> ticker,
         company       |-> latest.company,
         current_price |-> latest.price,
         daily_change  |->
            RMul(RDiv(RSub(latest.price, previous.price), previous.price),
                 RInt(100)),
         period_change |->
            RMul(RDiv(RSub(latest.price, first.price), first.price),
                 RInt(100)),
         volatility       |-> Annualize(Std(daily_return)),
         avg_daily_return |-> RMul(Mean(daily_return), RInt(100)),
         latest_date      |-> latest.date]

RECURSIVE SummariesOf(_, _)
SummariesOf(df, tickers) ==
    IF tickers = <<>> THEN <<>>
    ELSE LET ticker_data == SortByDate(FilterTicker(df, Head(tickers)))
             rest        == SummariesOf(df, Tail(tickers))
         IN  IF Len(ticker_data) < MinObservations THEN rest
             ELSE <<Summary(Head(tickers), ticker_data)>> \o rest

calculate_price_changes(df) == SummariesOf(df, Unique(df))

----------------------------------------------------------------------------
(* Comparison and printing of numbers *)

\* abs(x)
Abs(x) == IF x.k = "rat" THEN [x EXCEPT !.n = AbsInt(x.n)] ELSE x

\* 252 * 100^2: the square of the annualization factor sqrt(252) * 100
AnnualFactorSq == 2520000

\* A plausible slip: the comparison is not strict
Ge(x, c) ==
    CASE x.k = "nan" -> FALSE
      [] x.k = "rat" -> x.n >= c * x.d
      [] OTHER ->
            LET g == Gcd(AnnualFactorSq, c * c)
            IN  c <= 0 \/ x.n * (AnnualFactorSq \div g) >= ((c * c) \div g) * x.d

\* x > c for an integer c.  A comparison with NaN is false.  For a
\* volatility, sqrt(n/d) * sqrt(252) * 100 > c iff c < 0 or
\* (n/d) * 252 * 100^2 > c^2, evaluated with the common factor removed.
Gt(x, c) ==
    CASE x.k = "nan" -> FALSE
      [] x.k = "rat" -> x.n > c * x.d
      [] OTHER ->
            LET g == Gcd(AnnualFactorSq, c * c)
            IN  c < 0 \/ x.n * (AnnualFactorSq \div g) > ((c * c) \div g) * x.d

\* x < c for an integer c and a rational or NaN x
Lt(x, c) == x.k = "rat" /\ x.n < c * x.d

RECURSIVE Pow10(_)
Pow10(e) == IF e = 0 THEN 1 ELSE 10 * Pow10(e - 1)

\* a/d rounded to the nearest integer, a tie to the even one (a, d > 0)
RoundHalfEven(a, d) ==
    LET q == a \div d
        r == a % d
    IN  IF 2 * r < d THEN q
        ELSE IF 2 * r > d THEN q + 1
        ELSE IF q % 2 = 0 THEN q ELSE q + 1

\* The largest s in lo..hi with s * s <= q (lo * lo <= q)
RECURSIVE IsqrtBetween(_, _, _)
IsqrtBetween(q, lo, hi) ==
    IF lo >= hi THEN lo
    ELSE LET mid == (lo + hi + 1) \div 2
         IN  IF mid * mid <= q THEN IsqrtBetween(q, mid, hi)
             ELSE IsqrtBetween(q, lo, mid - 1)

\* The largest s with s * s <= q; 46340 is the largest with s * s < 2^31
Isqrt(q) == IsqrtBetween(q, 0, IF q < 46340 THEN q ELSE 46340)

\* sqrt(n/d) * sqrt(252) * 100 * 10^dec rounded to the nearest integer
VolScaled(x, dec) ==
    LET K  == AnnualFactorSq * Pow10(2 * dec)
        q  == x.n * (K \div x.d) + (x.n * (K % x.d)) \div x.d
        fr == (x.n * (K % x.d)) % x.d
        s  == Isqrt(q)
    IN  \* the radicand is q + fr/d; it rounds up iff it is >= (s + 1/2)^2,
        \* a tie going to the even neighbour
        IF q > s * s + s THEN s + 1
        ELSE IF q < s * s + s THEN s
        ELSE IF 4 * fr > x.d THEN s + 1
        ELSE IF 4 * fr < x.d THEN s
        ELSE IF s % 2 = 0 THEN s ELSE s + 1

\* The text of f"{x:.<dec>f}", or f"{x:+.<dec>f}" when signed: the sign, the
\* digits before the point and the dec digits after it; NaN prints as nan
Fmt(x, dec, signed) ==
    LET plus == IF signed THEN "+" ELSE ""
    IN  CASE x.k = "nan" ->
                [sign |-> plus, whole |-> 0, frac |-> 0, dec |-> dec,
                 nan |-> TRUE]
          [] x.k = "rat" ->
                LET scaled == RoundHalfEven(AbsInt(x.n) * Pow10(dec), x.d)
                IN  [sign  |-> IF x.n < 0 THEN "-" ELSE plus,
                     whole |-> scaled \div Pow10(dec),
                     frac  |-> scaled % Pow10(dec),
                     dec   |-> dec, nan |-> FALSE]
          [] OTHER ->
                LET scaled == VolScaled(x, dec)
                IN  [sign  |-> plus,
                     whole |-> scaled \div Pow10(dec),
                     frac  |-> scaled % Pow10(dec),
                     dec   |-> dec, nan |-> FALSE]

----------------------------------------------------------------------------
(* Significance Analyzer, rule path: analyze_with_rules *)

\* A line of text without data in it
Text(t) == [text |-> t, ticker |-> "", company |-> "", reasons |-> <<>>]

\* f"* {ticker} ({company}): {', '.join(reasons)}"
Bullet(stock, reasons) ==
    [text |-> "bullet", ticker |-> stock.ticker, company |-> stock.company,
     reasons |-> reasons]

\* f"{label}: {value}%"
Reason(label, value) == [label |-> label, value |-> value]

DailyThreshold == 5
PeriodThreshold == 15
VolatilityThreshold == 40

\* The reasons of one summary, in the order of the three tests
Reasons(stock) ==
    (IF Gt(Abs(stock.daily_change), DailyThreshold)
     THEN <<Reason("Large daily move", Fmt(stock.daily_change, 1, TRUE))>>
     ELSE <<>>)
    \o
    (IF Gt(Abs(stock.period_change), PeriodThreshold)
     THEN <<Reason("Large period move", Fmt(stock.period_change, 1, TRUE))>>
     ELSE <<>>)
    \o
    (IF Gt(stock.volatility, VolatilityThreshold)
     THEN <<Reason("High volatility", Fmt(stock.volatility, 1, FALSE))>>
     ELSE <<>>)

\* The list `significant`: one entry for each summary with a reason
RECURSIVE Significant(_)
Significant(stock_stats_) ==
    IF stock_stats_ = <<>> THEN <<>>
    ELSE LET stock   == Head(stock_stats_)
             reasons == Reasons(stock)
         IN  (IF reasons # <<>> THEN <<Bullet(stock, reasons)>> ELSE <<>>)
             \o Significant(Tail(stock_stats_))

NoSignificantLine ==
    Text("No significant changes detected by rule-based analysis.")

RulesTrailer ==
    << Text(""), Text("NOTABLE OBSERVATIONS:"),
       Text("Rule-based analysis focusing on statistical thresholds."),
       Text(""), Text("RECOMMENDATION:"),
       Text("Consider setting up Gemini API key for more intelligent analysis.") >>

analyze_with_rules(stock_stats_) ==
    LET significant == Significant(stock_stats_)
    IN  <<Text("SIGNIFICANT CHANGES:")>>
        \o (IF significant # <<>> THEN significant ELSE <<NoSignificantLine>>)
        \o RulesTrailer

----------------------------------------------------------------------------
(* Report Builder: create_report *)

\* Insert a summary into a sequence sorted by falling daily_change, after
\* the summaries that are not smaller
RECURSIVE InsertDescending(_, _)
InsertDescending(sorted, x) ==
    IF sorted = <<>> THEN <<x>>
    ELSE IF ~RLess(sorted[Len(sorted)].daily_change, x.daily_change)
         THEN Append(sorted, x)
    ELSE Append(InsertDescending(SubSeq(sorted, 1, Len(sorted) - 1), x),
                sorted[Len(sorted)])

\* Insert a summary into a sequence sorted by rising daily_change, after
\* the summaries that are not larger
RECURSIVE InsertAscending(_, _)
InsertAscending(sorted, x) ==
    IF sorted = <<>> THEN <<x>>
    ELSE IF ~RLess(x.daily_change, sorted[Len(sorted)].daily_change)
         THEN Append(sorted, x)
    ELSE Append(InsertAscending(SubSeq(sorted, 1, Len(sorted) - 1), x),
                sorted[Len(sorted)])

RECURSIVE SortDescending(_)
SortDescending(rows) ==
    IF rows = <<>> THEN <<>>
    ELSE InsertDescending(SortDescending(SubSeq(rows, 1, Len(rows) - 1)),
                          rows[Len(rows)])

RECURSIVE SortAscending(_)
SortAscending(rows) ==
    IF rows = <<>> THEN <<>>
    ELSE InsertAscending(SortAscending(SubSeq(rows, 1, Len(rows) - 1)),
                         rows[Len(rows)])

ReverseSeq(s) == [i \in 1..Len(s) |-> s[Len(s) + 1 - i]]

\* .head(n)
HeadN(rows, n) == SubSeq(rows, 1, IF Len(rows) < n THEN Len(rows) ELSE n)

\* DataFrame.nlargest(n, 'daily_change'), keep='first': the n rows with the
\* largest daily_change, falling, equal values in table order
nlargest(n, rows) == HeadN(SortDescending(rows), n)

\* A plausible slip: the worst performers are read off the end of the
\* falling order
nsmallest_from_tail(n, rows) == HeadN(ReverseSeq(SortDescending(rows)), n)

\* DataFrame.nsmallest(n, 'daily_change'), keep='first': the n rows with the
\* smallest daily_change, rising, equal values in table order
nsmallest(n, rows) == HeadN(SortAscending(rows), n)

\* The number of performers listed in each section
TopN == 3

\* stock_stats['daily_change'] and stock_stats['period_change']
DailyChanges(rows) == [i \in 1..Len(rows) |-> rows[i].daily_change]
PeriodChanges(rows) == [i \in 1..Len(rows) |-> rows[i].period_change]

\* f"* {ticker}: {daily_change:+.2f}% (${current_price:.2f})"
PerformerLine(stock) ==
    [ticker |-> stock.ticker,
     daily_change  |-> Fmt(stock.daily_change, 2, TRUE),
     current_price |-> Fmt(stock.current_price, 2, FALSE)]

\* The detail block of one summary
DetailBlock(stock) ==
    [ticker |-> stock.ticker, company |-> stock.company,
     current_price |-> Fmt(stock.current_price, 2, FALSE),
     daily_change  |-> Fmt(stock.daily_change, 2, TRUE),
     period_change |-> Fmt(stock.period_change, 2, TRUE),
     volatility    |-> Fmt(stock.volatility, 1, FALSE)]

PerformerLines(rows) == [i \in 1..Len(rows) |-> PerformerLine(rows[i])]

DetailBlocks(rows) == [i \in 1..Len(rows) |-> DetailBlock(rows[i])]

\* stock_stats['daily_change'] raises KeyError on the table without columns
\* that pd.DataFrame([]) is
create_report_raises(stock_stats_) == stock_stats_ = <<>>

\* The report (for a table with columns), section by section.  The
\* timestamp of the header is left out.
create_report(stock_stats_, llm_analysis_) ==
    [companies  |-> Len(stock_stats_),
     avg_daily  |-> Fmt(Mean(DailyChanges(stock_stats_)), 2, TRUE),
     avg_period |-> Fmt(Mean(PeriodChanges(stock_stats_)), 2, TRUE),
     gainers    |-> Len(SelectSeq(stock_stats_,
                                  LAMBDA st : Gt(st.daily_change, 0))),
     losers     |-> Len(SelectSeq(stock_stats_,
                                  LAMBDA st : Lt(st.daily_change, 0))),
     top        |-> PerformerLines(nlargest(TopN, stock_stats_)),
     worst      |-> PerformerLines(nsmallest(TopN, stock_stats_)),
     analysis   |-> llm_analysis_,
     details    |-> DetailBlocks(stock_stats_)]

\* The value of `report` before create_report returned
NoReport == [companies |-> -1]

----------------------------------------------------------------------------
(* Significance Analyzer, remote-model path: analyze_with_llm *)

\* The least length of a key that is taken for valid
MinKeyLen == 10

NoKey == [set |-> FALSE, len |-> 0]
Key(len) == [set |-> TRUE, len |-> len]

\* `not gemini_key`: the variable is unset, or set to the empty string
KeyMissing(key) == ~key.set \/ key.len = 0

\* A plausible slip: the bound is off by one
KeyTooShortOffByOne(key) == key.len < MinKeyLen - 1

\* len(gemini_key) < 10
KeyTooShort(key) == key.len < MinKeyLen

models_to_try == <<"gemini-2.0-flash-exp", "gemini-1.5-flash", "gemini-1.5-pro">>

\* What one pass of the loop body can come to: generate_content raises
\* ("error"), response.text raises ("unreadable"), response.text is a
\* text ("text") or the empty string ("empty")
ModelOutcomes == {"error", "unreadable", "text", "empty"}

\* The passes that end in the except clause of the loop body
Failed(out) == out \in {"error", "unreadable"}

\* response.text, a text the program does not look into
ResponseText(out) == IF out = "text" THEN <<Text("generated analysis")>> ELSE <<>>

\* A plausible slip: `break` in place of `continue`
AfterAttemptBreak(idx, out) ==
    IF ~Failed(out) THEN "main_report" ELSE "llm_fallback"

\* Where control goes after pass idx of the loop: `return response.text`,
\* `continue` with the next model, or past the loop to the raise
AfterAttempt(idx, out) ==
    IF ~Failed(out) THEN "main_report"
    ELSE IF idx < Len(models_to_try) THEN "llm_try"
    ELSE "llm_fallback"

----------------------------------------------------------------------------
(* Orchestrator: main *)

NoFile == [opens |-> 0, writes |-> 0, content |-> NoReport]

\* A plausible slip: the table is never taken for empty
IsEmptyNever(df) == FALSE

\* stock_data.empty
IsEmpty(df) == df = <<>>

\* A plausible slip: the exception of a step is swallowed and the run goes on
AfterStepSwallow(next, raised) == next

\* Where control goes after a step of the try block: on to the next
\* statement, or to the except clause when the step raised
AfterStep(next, raised) == IF raised THEN "main_except" ELSE next

\* The tables the Data Source hands to main: none, one ticker with one
\* observation, and tables with quiet and with moving tickers
SampleTables ==
    { <<>>,
      << Row(1, "NVDA", RInt(100)) >>,
      << Row(1, "GOOGL", RInt(100)), Row(2, "GOOGL", RInt(101)),
         Row(3, "GOOGL", RInt(102)) >>,
      << Row(1, "MSFT", RInt(100)), Row(2, "MSFT", RInt(101)),
         Row(1, "NVDA", RInt(100)), Row(2, "NVDA", RInt(104)),
         Row(3, "NVDA", RInt(110)) >> }

----------------------------------------------------------------------------
(* Bounds of the model *)

MaxKeyLen == 11

\* The statistics calculator is applied to every table of at most MaxRows
\* rows over StatsTickers, the dates 1..MaxDate and the prices PriceSet,
\* in every row order, with one row at most for a ticker and a date
MaxRows == 3
MaxDate == 3
StatsTickers == {"NVDA", "MSFT"}
PriceSet == {4, 6, 9}

\* The rule engine is applied to every summary table of at most
\* MaxRuleSummaries rows with these values: at, next to and far from
\* each threshold
MaxRuleSummaries == 2
RuleDailyValues == {Rat(6, 1), Rat(5, 1), Rat(-504, 100)}
RulePeriodValues == {Rat(2, 1), Rat(15, 1), Rat(-16, 1)}
RuleVolatilityValues ==
    { Rat(10, 1),
      [k |-> "vol", n |-> 1, d |-> 1575],   \* sqrt(252/1575) * 100 = 40
      [k |-> "vol", n |-> 1, d |-> 1574],   \* a little more than 40
      NaN }

\* The report builder is applied to every summary table of at most
\* MaxReportSummaries rows with these daily changes
MaxReportSummaries == 4

\* The generator is run in two processes, each with a hash salt in
\* 0..MaxSalt, for a window of 0..MaxDays days that ends on any weekday
MaxDays == 3
MaxSalt == 2
Todays == 7..13
ReportDailyValues == {-8, -5, 0, 3, 10}

----------------------------------------------------------------------------
(* The run of main *)

MainInit ==
    /\ pc = "main_data"
    /\ gemini_key \in {NoKey} \cup {Key(l) : l \in 0..MaxKeyLen}
    /\ stock_data = <<>>
    /\ stock_stats = <<>>
    /\ llm_analysis = <<>>
    /\ report = NoReport
    /\ console = {}
    /\ file = NoFile
    /\ steps = <<>>
    /\ configured = 0
    /\ attempts = <<>>
    /\ rules_calls = 0
    /\ analyzer = "idle"
    /\ outcome = "running"
    /\ runs = <<>>

\* stock_data = get_stock_data(days=30)
GetStockData ==
    /\ pc = "main_data"
    /\ \E table \in SampleTables : stock_data' = table
    /\ steps' = Append(steps, "data")
    /\ pc' = "main_empty"
    /\ UNCHANGED <<gemini_key, stock_stats, llm_analysis, report, console,
                   file, configured, attempts, rules_calls, analyzer,
                   outcome, runs>>

\* if stock_data.empty: print(...); return
EmptyCheck ==
    /\ pc = "main_empty"
    /\ IF IsEmpty(stock_data)
       THEN /\ console' = console \cup {"No stock data available. Exiting."}
            /\ pc' = "done"
            /\ outcome' = "returned"
       ELSE /\ pc' = "main_stats"
            /\ UNCHANGED <<console, outcome>>
    /\ UNCHANGED <<gemini_key, stock_data, stock_stats, llm_analysis, report,
                   file, steps, configured, attempts, rules_calls, analyzer,
                   runs>>

\* stock_stats = calculate_price_changes(stock_data)
CalculateStats ==
    /\ pc = "main_stats"
    /\ stock_stats' = calculate_price_changes(stock_data)
    /\ steps' = Append(steps, "stats")
    /\ pc' = "llm_key"
    /\ UNCHANGED <<gemini_key, stock_data, llm_analysis, report, console,
                   file, configured, attempts, rules_calls, analyzer,
                   outcome, runs>>

\* analyze_with_llm is entered; without a key, or with a short one, it
\* returns analyze_with_rules(stock_stats)
LlmNoKey ==
    /\ pc = "llm_key"
    /\ KeyMissing(gemini_key) \/ KeyTooShort(gemini_key)
    /\ steps' = Append(steps, "analyzer")
    /\ llm_analysis' = analyze_with_rules(stock_stats)
    /\ rules_calls' = rules_calls + 1
    /\ analyzer' = "returned"
    /\ pc' = AfterStep("main_report", FALSE)
    /\ UNCHANGED <<gemini_key, stock_data, stock_stats, report, console, file,
                   configured, attempts, outcome, runs>>

\* analyze_with_llm is entered with a key; genai.configure(api_key=...) is
\* called outside any try block and returns
LlmConfigure ==
    /\ pc = "llm_key"
    /\ ~(KeyMissing(gemini_key) \/ KeyTooShort(gemini_key))
    /\ steps' = Append(steps, "analyzer")
    /\ configured' = configured + 1
    /\ analyzer' = "running"
    /\ pc' = "llm_try"
    /\ UNCHANGED <<gemini_key, stock_data, stock_stats, llm_analysis, report,
                   console, file, attempts, rules_calls, outcome, runs>>

\* The same, and genai.configure raises: the exception leaves
\* analyze_with_llm and reaches the except clause of main
LlmConfigureRaises ==
    /\ pc = "llm_key"
    /\ ~(KeyMissing(gemini_key) \/ KeyTooShort(gemini_key))
    /\ steps' = Append(steps, "analyzer")
    /\ configured' = configured + 1
    /\ analyzer' = "raised"
    /\ pc' = AfterStep("main_report", TRUE)
    /\ UNCHANGED <<gemini_key, stock_data, stock_stats, llm_analysis, report,
                   console, file, attempts, rules_calls, outcome, runs>>

\* One pass of `for model_name in models_to_try`
LlmTry ==
    /\ pc = "llm_try"
    /\ Len(attempts) < Len(models_to_try)
    /\ LET idx == Len(attempts) + 1
       IN  \E out \in ModelOutcomes :
              /\ attempts' = Append(attempts,
                                    [model |-> models_to_try[idx], outcome |-> out])
              /\ pc' = AfterAttempt(idx, out)
              /\ IF Failed(out)
                 THEN UNCHANGED <<llm_analysis, analyzer>>
                 ELSE /\ llm_analysis' = ResponseText(out)
                      /\ analyzer' = "returned"
    /\ UNCHANGED <<gemini_key, stock_data, stock_stats, report, console, file,
                   steps, configured, rules_calls, outcome, runs>>

\* raise Exception("All Gemini models failed"), caught by the outer except
\* clause: return analyze_with_rules(stock_stats)
LlmFallback ==
    /\ pc = "llm_fallback"
    /\ llm_analysis' = analyze_with_rules(stock_stats)
    /\ rules_calls' = rules_calls + 1
    /\ analyzer' = "returned"
    /\ pc' = AfterStep("main_report", FALSE)
    /\ UNCHANGED <<gemini_key, stock_data, stock_stats, report, console, file,
                   steps, configured, attempts, outcome, runs>>

\* report = create_report(stock_stats, llm_analysis)
CreateReport ==
    /\ pc = "main_report"
    /\ steps' = Append(steps, "report")
    /\ IF create_report_raises(stock_stats)
       THEN /\ pc' = AfterStep("main_print", TRUE)
            /\ UNCHANGED report
       ELSE /\ pc' = AfterStep("main_print", FALSE)
            /\ report' = create_report(stock_stats, llm_analysis)
    /\ UNCHANGED <<gemini_key, stock_data, stock_stats, llm_analysis, console,
                   file, configured, attempts, rules_calls, analyzer, outcome,
                   runs>>

\* print(report), between two rules
PrintReport ==
    /\ pc = "main_print"
    /\ steps' = Append(steps, "print")
    /\ console' = console \cup {"report"}
    /\ pc' = AfterStep("main_open", FALSE)
    /\ UNCHANGED <<gemini_key, stock_data, stock_stats, llm_analysis, report,
                   file, configured, attempts, rules_calls, analyzer, outcome,
                   runs>>

\* open('ai_stock_report.txt', 'w'): the file is truncated, or open raises
OpenFile ==
    /\ pc = "main_open"
    /\ steps' = Append(steps, "write")
    /\ \/ /\ file' = [file EXCEPT !.opens = @ + 1, !.content = NoReport]
          /\ pc' = AfterStep("main_write", FALSE)
       \/ /\ pc' = AfterStep("main_write", TRUE)
          /\ UNCHANGED file
    /\ UNCHANGED <<gemini_key, stock_data, stock_stats, llm_analysis, report,
                   console, configured, attempts, rules_calls, analyzer,
                   outcome, runs>>

\* f.write(report), or write raises and leaves the truncated file
WriteFile ==
    /\ pc = "main_write"
    /\ \/ /\ file' = [file EXCEPT !.writes = @ + 1, !.content = report]
          /\ pc' = AfterStep("main_saved", FALSE)
       \/ /\ pc' = AfterStep("main_saved", TRUE)
          /\ UNCHANGED file
    /\ UNCHANGED <<gemini_key, stock_data, stock_stats, llm_analysis, report,
                   console, steps, configured, attempts, rules_calls, analyzer,
                   outcome, runs>>

\* print("Report saved to: ..."), and main returns
Saved ==
    /\ pc = "main_saved"
    /\ console' = console \cup {"Report saved to: ai_stock_report.txt"}
    /\ pc' = "done"
    /\ outcome' = "returned"
    /\ UNCHANGED <<gemini_key, stock_data, stock_stats, llm_analysis, report,
                   file, steps, configured, attempts, rules_calls, analyzer,
                   runs>>

\* except Exception as e: print, traceback.print_exc(); no raise
HandlerOutcome == "returned"

Except ==
    /\ pc = "main_except"
    /\ console' = console \cup {"Error"}
    /\ pc' = "done"
    /\ outcome' = HandlerOutcome
    /\ UNCHANGED <<gemini_key, stock_data, stock_stats, llm_analysis, report,
                   file, steps, configured, attempts, rules_calls, analyzer,
                   runs>>

Next ==
    \/ GetStockData
    \/ EmptyCheck
    \/ CalculateStats
    \/ LlmNoKey
    \/ LlmConfigure
    \/ LlmConfigureRaises
    \/ LlmTry
    \/ LlmFallback
    \/ CreateReport
    \/ PrintReport
    \/ OpenFile
    \/ WriteFile
    \/ Saved
    \/ Except

Spec == MainInit /\ [][Next]_vars

----------------------------------------------------------------------------
(* The statistics calculator on its own *)

Idle ==
    /\ gemini_key = NoKey
    /\ console = {}
    /\ file = NoFile
    /\ steps = <<>>
    /\ configured = 0
    /\ attempts = <<>>
    /\ rules_calls = 0
    /\ analyzer = "idle"
    /\ outcome = "running"
    /\ runs = <<>>

idleVars == <<gemini_key, console, file, steps, configured, attempts,
              rules_calls, analyzer, outcome, runs>>

StatsInit ==
    /\ pc = "stats_input"
    /\ stock_data = <<>>
    /\ stock_stats = <<>>
    /\ llm_analysis = <<>>
    /\ report = NoReport
    /\ Idle

\* The Data Source adds a row to the table
AddRow ==
    /\ pc = "stats_input"
    /\ Len(stock_data) < MaxRows
    /\ \E t \in StatsTickers, d \in 1..MaxDate, p \in PriceSet :
          /\ \A i \in 1..Len(stock_data) :
                ~(stock_data[i].ticker = t /\ stock_data[i].date = d)
          /\ stock_data' = Append(stock_data, Row(d, t, RInt(p)))
    /\ UNCHANGED <<pc, stock_stats, llm_analysis, report>>
    /\ UNCHANGED idleVars

RunCalculate ==
    /\ pc = "stats_input"
    /\ stock_stats' = calculate_price_changes(stock_data)
    /\ pc' = "stats_done"
    /\ UNCHANGED <<stock_data, llm_analysis, report>>
    /\ UNCHANGED idleVars

StatsNext ==
    \/ AddRow
    \/ RunCalculate

SpecStats == StatsInit /\ [][StatsNext]_vars

----------------------------------------------------------------------------
(* The rule engine on its own *)

\* The summary at position i of a table: the tickers are distinct
SummaryAt(i, daily, period, vol) ==
    [ticker        |-> AI_COMPANIES[i].ticker,
     company       |-> AI_COMPANIES[i].company,
     current_price |-> RInt(100),
     daily_change  |-> daily,
     period_change |-> period,
     volatility    |-> vol,
     avg_daily_return |-> RInt(0),
     latest_date   |-> 1]

RulesInit ==
    /\ pc = "rules_input"
    /\ stock_data = <<>>
    /\ stock_stats = <<>>
    /\ llm_analysis = <<>>
    /\ report = NoReport
    /\ Idle

AddRuleSummary ==
    /\ pc = "rules_input"
    /\ Len(stock_stats) < MaxRuleSummaries
    /\ \E daily \in RuleDailyValues, period \in RulePeriodValues,
          vol \in RuleVolatilityValues :
          stock_stats' = Append(stock_stats,
              SummaryAt(Len(stock_stats) + 1, daily, period, vol))
    /\ UNCHANGED <<pc, stock_data, llm_analysis, report>>
    /\ UNCHANGED idleVars

RunRules ==
    /\ pc = "rules_input"
    /\ llm_analysis' = analyze_with_rules(stock_stats)
    /\ pc' = "rules_done"
    /\ UNCHANGED <<stock_data, stock_stats, report>>
    /\ UNCHANGED idleVars

RulesNext ==
    \/ AddRuleSummary
    \/ RunRules

SpecRules == RulesInit /\ [][RulesNext]_vars

----------------------------------------------------------------------------
(* The report builder on its own *)

ReportInit ==
    /\ pc = "report_input"
    /\ stock_data = <<>>
    /\ stock_stats = <<>>
    /\ llm_analysis = <<>>
    /\ report = NoReport
    /\ Idle

AddReportSummary ==
    /\ pc = "report_input"
    /\ Len(stock_stats) < MaxReportSummaries
    /\ \E daily \in ReportDailyValues :
          stock_stats' = Append(stock_stats,
              SummaryAt(Len(stock_stats) + 1, RInt(daily), RInt(2), RInt(10)))
    /\ UNCHANGED <<pc, stock_data, llm_analysis, report>>
    /\ UNCHANGED idleVars

RunCreateReport ==
    /\ pc = "report_input"
    /\ IF create_report_raises(stock_stats)
       THEN /\ pc' = "report_raised"
            /\ UNCHANGED report
       ELSE /\ pc' = "report_done"
            /\ report' = create_report(stock_stats, llm_analysis)
    /\ UNCHANGED <<stock_data, stock_stats, llm_analysis>>
    /\ UNCHANGED idleVars

ReportNext ==
    \/ AddReportSummary
    \/ RunCreateReport

SpecReport == ReportInit /\ [][ReportNext]_vars

----------------------------------------------------------------------------
(* The generator, run in two processes for the same window *)

NewProcess == [state |-> "new", salt |-> 0, data |-> <<>>]

GenInit ==
    /\ pc = "gen"
    /\ stock_data = <<>>
    /\ stock_stats = <<>>
    /\ llm_analysis = <<>>
    /\ report = NoReport
    /\ gemini_key = NoKey
    /\ console = {}
    /\ file = NoFile
    /\ steps = <<>>
    /\ configured = 0
    /\ attempts = <<>>
    /\ rules_calls = 0
    /\ analyzer = "idle"
    /\ outcome = "running"
    /\ \E days \in 0..MaxDays, today \in Todays :
          runs = [days |-> days, today |-> today,
                  proc |-> <<NewProcess, NewProcess>>]

genRest == <<pc, gemini_key, stock_data, stock_stats, llm_analysis, report,
             console, file, steps, configured, attempts, rules_calls,
             analyzer, outcome>>

\* A Python process starts: the interpreter draws its hash salt
StartProcess(r) ==
    /\ runs.proc[r].state = "new"
    /\ \E salt \in 0..MaxSalt :
          runs' = [runs EXCEPT !.proc[r] = [state |-> "started",
                                            salt |-> salt, data |-> <<>>]]
    /\ UNCHANGED genRest

\* The process runs generate_sample_data(days)
Generate(r) ==
    /\ runs.proc[r].state = "started"
    /\ runs' = [runs EXCEPT !.proc[r].state = "done",
                            !.proc[r].data =
                                generate_sample_data(runs.days, runs.today,
                                                     runs.proc[r].salt)]
    /\ UNCHANGED genRest

GenNext ==
    \/ \E r \in 1..2 : StartProcess(r)
    \/ \E r \in 1..2 : Generate(r)

SpecGen == GenInit /\ [][GenNext]_vars

----------------------------------------------------------------------------
(* Claims about the Analyzer and the Orchestrator, under Spec *)

\* The key is there and at least 10 characters long
C1_CredentialPresent == gemini_key.set /\ gemini_key.len >= 10

C1_AllCandidatesFailed ==
    /\ Len(attempts) = 3
    /\ \A i \in 1..3 : attempts[i].outcome \in {"error", "unreadable"}

\* C1: with a credential of at least 10 characters the candidate models are
\* attempted in list order (gemini-2.0-flash-exp, gemini-1.5-flash,
\* gemini-1.5-pro); every attempt but the last one made has failed, so
\* model k+1 is attempted only after model k failed and nothing is attempted
\* after a success; the rule-based strategy is invoked at most once, only
\* when all three have failed, and always when all three have failed by the
\* time the Analyzer has returned.
C1_ModelsInOrderThenRulesOnce ==
    C1_CredentialPresent =>
        /\ Len(attempts) <= 3
        /\ \A i \in 1..Len(attempts) :
              attempts[i].model =
                  <<"gemini-2.0-flash-exp", "gemini-1.5-flash",
                    "gemini-1.5-pro">>[i]
        /\ \A i \in 1..(Len(attempts) - 1) :
              attempts[i].outcome \in {"error", "unreadable"}
        /\ rules_calls <= 1
        /\ rules_calls = 1 => C1_AllCandidatesFailed
        /\ (analyzer = "returned" /\ C1_AllCandidatesFailed) => rules_calls = 1

\* The Analyzer has returned after all three models failed in turn
C1_Witness ==
    /\ C1_CredentialPresent
    /\ analyzer = "returned"
    /\ C1_AllCandidatesFailed
    /\ rules_calls = 1
    /\ llm_analysis = analyze_with_rules(stock_stats)

\* C2: when the credential is absent, empty or shorter than 10 characters
\* the provider is never configured and no model is called, and the result
\* of the Analyzer is the output of analyze_with_rules on the same summaries.
C2_NoCredentialNoNetwork ==
    (~gemini_key.set \/ gemini_key.len < 10) =>
        /\ configured = 0
        /\ attempts = <<>>
        /\ analyzer # "raised"
        /\ analyzer = "returned" =>
              /\ llm_analysis = analyze_with_rules(stock_stats)
              /\ rules_calls = 1

\* The Analyzer has returned with a key of 9 characters, for summaries one
\* of which is significant
C2_Witness ==
    /\ gemini_key.set
    /\ gemini_key.len = 9
    /\ analyzer = "returned"
    /\ Len(stock_stats) = 2
    /\ \E i \in 1..Len(llm_analysis) : llm_analysis[i].text = "bullet"

\* C3: the Analyzer never raises and always returns a non-empty string,
\* whatever the provider does.
C3_AnalyzerNeverRaisesNeverEmpty ==
    /\ analyzer # "raised"
    /\ analyzer = "returned" => llm_analysis # <<>>

\* C4: when the Data Source returned an empty table, main has run no step
\* after the data step: no statistics, no Analyzer (no rule engine, no
\* provider), no report, no print of a report, the file neither opened nor
\* written; and when main has ended it has printed the no-data message and
\* returned.
C4_EmptyTableEndsRun ==
    (steps # <<>> /\ stock_data = <<>>) =>
        /\ steps = <<"data">>
        /\ stock_stats = <<>>
        /\ analyzer = "idle"
        /\ rules_calls = 0
        /\ configured = 0
        /\ attempts = <<>>
        /\ report = NoReport
        /\ "report" \notin console
        /\ file = NoFile
        /\ pc \in {"main_empty", "done"}
        /\ pc = "done" =>
              /\ console = {"No stock data available. Exiting."}
              /\ outcome = "returned"

\* main has ended on an empty table
C4_Witness ==
    /\ steps = <<"data">>
    /\ stock_data = <<>>
    /\ pc = "done"
    /\ "No stock data available. Exiting." \in console

C5_Order == <<"data", "stats", "analyzer", "report", "print", "write">>

C5_Handled == pc \in {"main_except", "done"}

\* C5: the steps of main start in the order data, statistics, Analyzer,
\* report, console print, file write, each once; after a step that raised
\* (the Analyzer, the report builder, the opening or the writing of the
\* file) control is in the except clause or main has ended, and no later
\* step has started; the file is opened and written at most once, only
\* after the report was built, with the report as its content; main never
\* ends by raising.
C5_FixedOrderExceptionsCaught ==
    /\ Len(steps) <= Len(C5_Order)
    /\ \A i \in 1..Len(steps) : steps[i] = C5_Order[i]
    /\ analyzer = "raised" => Len(steps) = 3 /\ C5_Handled
    /\ (Len(steps) >= 4 /\ report = NoReport) => Len(steps) = 4 /\ C5_Handled
    /\ (Len(steps) = 6 /\ file.opens = 0) => C5_Handled
    /\ (Len(steps) = 6 /\ file.opens = 1 /\ file.writes = 0) =>
          pc \in {"main_write", "main_except", "done"}
    /\ file.opens <= 1
    /\ file.writes <= file.opens
    /\ file.opens = 1 => report # NoReport /\ Len(steps) = 6
    /\ file.writes = 1 => file.content = report
    /\ "Report saved to: ai_stock_report.txt" \in console => file.writes = 1
    /\ "Error" \in console => pc = "done"
    /\ outcome # "raised"
    /\ pc = "done" <=> outcome = "returned"

\* main has ended after the report builder raised: nothing was printed or
\* written
C5_Witness ==
    /\ pc = "done"
    /\ outcome = "returned"
    /\ steps = <<"data", "stats", "analyzer", "report">>
    /\ report = NoReport
    /\ console = {"Error"}
    /\ file = NoFile

----------------------------------------------------------------------------
(* Claims about the statistics calculator, under SpecStats *)

\* The positions in the table of the rows of ticker t
C7_Obs(t) == {i \in 1..Len(stock_data) : stock_data[i].ticker = t}

C7_Qualifying == {t \in StatsTickers : Cardinality(C7_Obs(t)) >= 2}

\* The price of the observation of t with the k-th latest date
C7_Latest(t, k) ==
    LET i == CHOOSE i \in C7_Obs(t) :
                Cardinality({j \in C7_Obs(t) :
                    stock_data[j].date > stock_data[i].date}) = k - 1
    IN  stock_data[i].price.n

\* The price of the observation of t with the earliest date
C7_Earliest(t) == C7_Latest(t, Cardinality(C7_Obs(t)))

\* x = (to - from) / from * 100
C7_IsChange(x, from, to) == x.k = "rat" /\ x.n * from = (to - from) * 100 * x.d

\* C7: calculate_price_changes emits one summary for each ticker with at
\* least 2 observations and none for any other; daily_change is
\* (last - prev)/prev*100 over the two observations latest by date and
\* period_change is (last - first)/first*100 over the earliest and the
\* latest, whatever the order of the rows; with exactly 2 observations the
\* two are equal.
C7_OneSummaryPerTickerExactChanges ==
    pc = "stats_done" =>
        /\ Len(stock_stats) = Cardinality(C7_Qualifying)
        /\ \A t \in C7_Qualifying :
              Cardinality({i \in 1..Len(stock_stats) :
                              stock_stats[i].ticker = t}) = 1
        /\ \A i \in 1..Len(stock_stats) :
              LET s == stock_stats[i]
                  t == s.ticker
              IN  /\ t \in C7_Qualifying
                  /\ C7_IsChange(s.daily_change, C7_Latest(t, 2), C7_Latest(t, 1))
                  /\ C7_IsChange(s.period_change, C7_Earliest(t), C7_Latest(t, 1))
                  /\ Cardinality(C7_Obs(t)) = 2 =>
                        s.daily_change = s.period_change

\* The table holds the three observations of one ticker, the latest first:
\* the prices 4, 6, 9 by date give a daily change of 50% and a period
\* change of 125%
C7_Witness ==
    /\ pc = "stats_done"
    /\ Len(stock_data) = 3
    /\ [i \in 1..3 |-> stock_data[i].ticker] = <<"NVDA", "NVDA", "NVDA">>
    /\ [i \in 1..3 |-> stock_data[i].date] = <<3, 1, 2>>
    /\ [i \in 1..3 |-> stock_data[i].price.n] = <<9, 4, 6>>
    /\ Len(stock_stats) = 1
    /\ stock_stats[1].daily_change = Rat(50, 1)
    /\ stock_stats[1].period_change = Rat(125, 1)

\* The returns of ticker t, by date
C9_Returns(t) ==
    LET ticker_data == InsertionSortByDate(FilterTicker(stock_data, t))
    IN  [i \in 1..(Len(ticker_data) - 1) |->
            RSub(RDiv(ticker_data[i + 1].price, ticker_data[i].price), RInt(1))]

C9_Defined(v) == v.k # "nan" /\ v.n >= 0 /\ v.d > 0

\* C9: for every summary emitted (every ticker with at least 2
\* observations, exactly 2 included) the volatility is a defined number
\* >= 0 whenever the prices are not all the same, and it is exactly 0 when
\* all the per-step returns are the same.
C9_VolatilityDefined ==
    pc = "stats_done" =>
        \A i \in 1..Len(stock_stats) :
            LET s == stock_stats[i]
                r == C9_Returns(s.ticker)
            IN  /\ (\E j \in 1..Len(r) : r[j] # RInt(0)) =>
                       C9_Defined(s.volatility)
                /\ (\A j, k \in 1..Len(r) : r[j] = r[k]) =>
                       C9_Defined(s.volatility) /\ s.volatility.n = 0

----------------------------------------------------------------------------
(* Claims about the rule engine, under SpecRules *)

C6_Daily(s) == AbsInt(s.daily_change.n) > 5 * s.daily_change.d
C6_Period(s) == AbsInt(s.period_change.n) > 15 * s.period_change.d
C6_Volatility(s) ==
    CASE s.volatility.k = "rat" -> s.volatility.n > 40 * s.volatility.d
      [] s.volatility.k = "vol" ->
            s.volatility.n * 2520000 > 1600 * s.volatility.d
      [] OTHER -> FALSE

\* The labels of the reasons a summary should have
C6_Labels(s) ==
    (IF C6_Daily(s) THEN <<"Large daily move">> ELSE <<>>)
    \o (IF C6_Period(s) THEN <<"Large period move">> ELSE <<>>)
    \o (IF C6_Volatility(s) THEN <<"High volatility">> ELSE <<>>)

\* The summaries that should be listed, in input order
C6_Listed == SelectSeq(stock_stats, LAMBDA s : C6_Labels(s) # <<>>)

C6_Bullets == SelectSeq(llm_analysis, LAMBDA l : l.text = "bullet")

C6_NoneLine == "No significant changes detected by rule-based analysis."

\* C6: the reasons of a summary are the daily-move reason iff
\* |daily_change| > 5, the period-move reason iff |period_change| > 15 and
\* the volatility reason iff volatility > 40, in that order; the tickers
\* with a reason are listed, in input order, and no others; when there is
\* none the no-significant-changes line stands in their place; daily 6.0,
\* period 2.0, volatility 10.0 gives the one reason "Large daily move:
\* +6.0%".
C6_RuleThresholds ==
    pc = "rules_done" =>
        /\ Len(C6_Bullets) = Len(C6_Listed)
        /\ \A k \in 1..Len(C6_Bullets) :
              /\ C6_Bullets[k].ticker = C6_Listed[k].ticker
              /\ Len(C6_Bullets[k].reasons) = Len(C6_Labels(C6_Listed[k]))
              /\ \A j \in 1..Len(C6_Bullets[k].reasons) :
                    C6_Bullets[k].reasons[j].label = C6_Labels(C6_Listed[k])[j]
              /\ (/\ C6_Listed[k].daily_change = Rat(6, 1)
                  /\ C6_Listed[k].period_change = Rat(2, 1)
                  /\ C6_Listed[k].volatility = Rat(10, 1)) =>
                    C6_Bullets[k].reasons =
                        << [label |-> "Large daily move",
                            value |-> [sign |-> "+", whole |-> 6, frac |-> 0,
                                       dec |-> 1, nan |-> FALSE]] >>
        /\ llm_analysis[1].text = "SIGNIFICANT CHANGES:"
        /\ C6_Listed # <<>> =>
              /\ \A k \in 1..Len(C6_Bullets) : llm_analysis[1 + k] = C6_Bullets[k]
              /\ \A i \in 1..Len(llm_analysis) : llm_analysis[i].text # C6_NoneLine
        /\ C6_Listed = <<>> => llm_analysis[2].text = C6_NoneLine

\* The rules ran on a table whose first summary is at the thresholds
\* (5, 15, 40: no reason) and whose second is the example (6, 2, 10)
C6_Witness ==
    /\ pc = "rules_done"
    /\ Len(stock_stats) = 2
    /\ stock_stats[1].daily_change = Rat(5, 1)
    /\ stock_stats[1].period_change = Rat(15, 1)
    /\ stock_stats[1].volatility = [k |-> "vol", n |-> 1, d |-> 1575]
    /\ stock_stats[2].daily_change = Rat(6, 1)
    /\ stock_stats[2].period_change = Rat(2, 1)
    /\ stock_stats[2].volatility = Rat(10, 1)
    /\ Len(C6_Bullets) = 1
    /\ C6_Bullets[1].ticker = stock_stats[2].ticker

----------------------------------------------------------------------------
(* Claims about the report builder, under SpecReport *)

C8_Daily(i) == stock_stats[i].daily_change.n

\* The position in the table of the summary a performer line names
C8_Pos(line) == CHOOSE i \in 1..Len(stock_stats) : stock_stats[i].ticker = line.ticker

\* Summary i comes before summary j among the top performers
C8_TopBefore(i, j) ==
    C8_Daily(i) > C8_Daily(j) \/ (C8_Daily(i) = C8_Daily(j) /\ i < j)

\* Summary i comes before summary j among the worst performers
C8_WorstBefore(i, j) ==
    C8_Daily(i) < C8_Daily(j) \/ (C8_Daily(i) = C8_Daily(j) /\ i < j)

C8_Count == IF Len(stock_stats) < 3 THEN Len(stock_stats) ELSE 3

\* C8: in a report that was built, the top performers are the min(3, n)
\* summaries with the largest daily_change, falling, and the worst
\* performers the min(3, n) with the smallest, rising, equal values in
\* input order; gainers counts daily_change > 0 and losers daily_change < 0;
\* the daily changes [10, -5, 3, -8] put 10 first among the top, -8 first
\* among the worst, and give 2 against 2.
C8_TopWorstGainersLosers ==
    pc = "report_done" =>
        /\ Len(report.top) = C8_Count
        /\ Len(report.worst) = C8_Count
        /\ \A a \in 1..C8_Count :
              /\ \A b \in (a + 1)..C8_Count :
                    /\ C8_TopBefore(C8_Pos(report.top[a]), C8_Pos(report.top[b]))
                    /\ C8_WorstBefore(C8_Pos(report.worst[a]),
                                      C8_Pos(report.worst[b]))
              /\ \A j \in 1..Len(stock_stats) :
                    /\ j \notin {C8_Pos(report.top[b]) : b \in 1..C8_Count} =>
                          C8_TopBefore(C8_Pos(report.top[a]), j)
                    /\ j \notin {C8_Pos(report.worst[b]) : b \in 1..C8_Count} =>
                          C8_WorstBefore(C8_Pos(report.worst[a]), j)
        /\ report.gainers =
              Cardinality({i \in 1..Len(stock_stats) : C8_Daily(i) > 0})
        /\ report.losers =
              Cardinality({i \in 1..Len(stock_stats) : C8_Daily(i) < 0})
        /\ [i \in 1..Len(stock_stats) |-> C8_Daily(i)] = <<10, -5, 3, -8>> =>
              /\ report.top[1].ticker = stock_stats[1].ticker
              /\ report.worst[1].ticker = stock_stats[4].ticker
              /\ report.gainers = 2
              /\ report.losers = 2

\* A report was built for the daily changes [3, 0, 3, -5]: a tie among the
\* top performers, and a change of zero
C8_Witness ==
    /\ pc = "report_done"
    /\ [i \in 1..Len(stock_stats) |-> C8_Daily(i)] = <<3, 0, 3, -5>>
    /\ report.top[1].ticker = stock_stats[1].ticker
    /\ report.top[2].ticker = stock_stats[3].ticker
    /\ report.gainers = 2
    /\ report.losers = 1

----------------------------------------------------------------------------
(* Claims about the generator, under SpecGen *)

\* C10: two runs of generate_sample_data in separate processes, for the
\* same window, produce the same price sequence for every ticker.
C10_SameDataInEveryProcess ==
    (runs.proc[1].state = "done" /\ runs.proc[2].state = "done") =>
        runs.proc[1].data = runs.proc[2].data

====
